---- MODULE Spec2Model ----
(***************************************************************************)
(* A model of wcag_headings_labels_checker.py: text normalisation, the     *)
(* page scan that builds the locator-keyed element index, the per-element  *)
(* judgment step with its structured-reply extraction, and the run         *)
(* (check_headings_and_labels) with its session cleanup.                   *)
(*                                                                         *)
(* Text is a sequence of one-character strings.  Characters that the code  *)
(* treats specially are named: "FWSP" is U+3000, "FWBANG" is U+FF01,       *)
(* "DBANG" is U+203C, "ELLIPSIS" is U+2026, "TAB" is an ASCII whitespace   *)
(* character other than the space, "CTRL" is a control character that is   *)
(* neither printable nor whitespace.                                       *)
(***************************************************************************)
EXTENDS Integers, Sequences, FiniteSets, TLC

VARIABLES
    norm_pc, norm_in, norm_out, norm_out2,
    rec_pc, response_text, json_str, rec_result,
    text_pc, live, text_out,
    scan_pc, dom, scan_k, elements, DEBUG,
    pc, driver, temp_dir, exc, all_elements, heading_count, label_count,
    analyzed_elements, call_log, final_report, exit_status,
    corr_pc, soup, corr_elements, corr_headings, corr_labels

norm_vars == <<norm_pc, norm_in, norm_out, norm_out2>>
rec_vars == <<rec_pc, response_text, json_str, rec_result>>
text_vars == <<text_pc, live, text_out>>
scan_vars == <<scan_pc, dom, scan_k, elements, DEBUG>>
run_vars == <<pc, driver, temp_dir, exc, all_elements, heading_count, label_count,
              analyzed_elements, call_log, final_report, exit_status>>
corr_vars == <<corr_pc, soup, corr_elements, corr_headings, corr_labels>>
vars == <<norm_vars, rec_vars, text_vars, scan_vars, run_vars, corr_vars>>

(***************************************************************************)
(* Bounds                                                                  *)
(***************************************************************************)
MaxNormLen == 3
MaxReplyLen == 5
MaxDom == 2
MaxRunReplyLen == 3
MaxIndex == 2
MaxNodes == 2

\* All sequences over S of length 0..n
RECURSIVE SeqsUpTo(_, _)
SeqsUpTo(S, n) ==
    IF n = 0 THEN {<<>>}
    ELSE LET shorter == SeqsUpTo(S, n - 1)
         IN  shorter \cup {Append(s, c) : s \in {t \in shorter : Len(t) = n - 1}, c \in S}

(***************************************************************************)
(* normalize_text                                                          *)
(***************************************************************************)
NormChars == {"a", " ", "TAB", "FWSP", "FWBANG", "DBANG", "CTRL"}

\* str.isspace(): the space, the other ASCII whitespace, U+3000
IsSpace(c) == c \in {" ", "TAB", "FWSP"}

\* str.isprintable(): of the whitespace only the ASCII space is printable
IsPrintable(c) == c \notin {"TAB", "FWSP", "CTRL"}

\* text.replace('　', ' ')
ReplaceFullWidthSpace(text) ==
    [i \in DOMAIN text |-> IF text[i] = "FWSP" THEN " " ELSE text[i]]

\* the conversion table: one character to one or more half-width characters
Conversion(c) ==
    CASE c = "FWBANG"   -> <<"!">>
      [] c = "DBANG"    -> <<"!", "!">>
      [] c = "ELLIPSIS" -> <<".", ".", ".">>
      [] OTHER          -> <<c>>

\* text.translate(str.maketrans(conversion))
RECURSIVE Translate(_)
Translate(text) ==
    IF text = <<>> THEN <<>>
    ELSE Conversion(Head(text)) \o Translate(Tail(text))

\* ''.join(c if c.isprintable() or c.isspace() else ' ' for c in text)
ReplaceControl(text) ==
    [i \in DOMAIN text |->
        IF IsPrintable(text[i]) \/ IsSpace(text[i]) THEN text[i] ELSE " "]

\* text.split(): the maximal runs of non-whitespace characters
RECURSIVE SplitWords(_, _)
SplitWords(text, word) ==
    IF text = <<>> THEN (IF word = <<>> THEN <<>> ELSE <<word>>)
    ELSE IF IsSpace(Head(text))
         THEN (IF word = <<>> THEN <<>> ELSE <<word>>) \o SplitWords(Tail(text), <<>>)
         ELSE SplitWords(Tail(text), Append(word, Head(text)))

\* ' '.join(words)
RECURSIVE JoinWords(_)
JoinWords(words) ==
    IF words = <<>> THEN <<>>
    ELSE IF Len(words) = 1 THEN words[1]
    ELSE words[1] \o <<" ">> \o JoinWords(Tail(words))

\* a plausible slip: whitespace is collapsed before the control characters
\* are turned into spaces
NormalizeTextCollapseFirst(text) ==
    IF text = <<>> THEN <<>>
    ELSE ReplaceControl(JoinWords(SplitWords(
             Translate(ReplaceFullWidthSpace(text)), <<>>)))

normalize_text(text) ==
    IF text = <<>> THEN <<>>
    ELSE JoinWords(SplitWords(
             ReplaceControl(Translate(ReplaceFullWidthSpace(text))), <<>>))

(***************************************************************************)
(* get_page_content                                                        *)
(*                                                                         *)
(* A live element is what the browser answers for one heading or label:    *)
(* its tag and id, the three text reads, its attributes, what the lookups  *)
(* of its aria-labelledby and for targets give, the alt values of its      *)
(* descendant images, and whether a read of it fails (a stale element).    *)
(* An absent attribute and an empty one are both the empty text: the code  *)
(* tests them by truthiness.  The headings and labels are modelled as      *)
(* children of the body, in document order.                                *)
(***************************************************************************)
LiveElement(tag, id, visible, inner, content, alt, aria, lby, lbyFound, lbyText, for, forFound, placeholder, imgs, stale) ==
    [tag |-> tag, id |-> id, text |-> visible, innerText |-> inner,
     textContent |-> content, alt |-> alt, aria_label |-> aria,
     aria_labelledby |-> lby, labelledby_found |-> lbyFound,
     labelledby_text |-> lbyText, for |-> for, for_found |-> forFound,
     placeholder |-> placeholder, img_alts |-> imgs, stale |-> stale]

\* an element with text and no other attribute
PlainElement(tag, id, text, stale) ==
    LiveElement(tag, id, text, text, text, <<>>, <<>>, "", FALSE, <<>>,
                "", FALSE, <<>>, <<>>, stale)

\* the 1-based positions of dom, in document order, that satisfy a tag
SameTagBefore(d, i) == {j \in 1..i : d[j].tag = d[i].tag}
SameTag(d, i) == {j \in DOMAIN d : d[j].tag = d[i].tag}

\* getXPath: the by-id form for an element with an id, else the path from
\* the body with the rank among the same-tag siblings when there are several
getXPath(d, i) ==
    IF d[i].id # ""
    THEN [form |-> "byId", id |-> d[i].id, tag |-> "*", index |-> 0]
    ELSE [form |-> "path", id |-> "", tag |-> d[i].tag,
          index |-> IF Cardinality(SameTag(d, i)) > 1
                    THEN Cardinality(SameTagBefore(d, i)) ELSE 0]

\* max([visible_text, inner_text, text_content], key=len): the first of the
\* longest
LongestText(e) ==
    LET v == normalize_text(e.text)
        n == normalize_text(e.innerText)
        c == normalize_text(e.textContent)
    IN  IF Len(v) >= Len(n) /\ Len(v) >= Len(c) THEN v
        ELSE IF Len(n) >= Len(c) THEN n
        ELSE c

\* a plausible slip: aria-labelledby is tried before aria-label
AttributeTextLabelledbyFirst(e, isLabel) ==
    IF e.alt # <<>> THEN normalize_text(e.alt)
    ELSE IF e.aria_labelledby # "" THEN
        (IF e.labelledby_found THEN normalize_text(e.labelledby_text) ELSE <<>>)
    ELSE IF e.aria_label # <<>> THEN normalize_text(e.aria_label)
    ELSE <<>>

\* the if / elif chain over alt, aria-label, aria-labelledby and, for a
\* label, the placeholder of the for target: only the first attribute that
\* is present is used
AttributeText(e, isLabel) ==
    IF e.alt # <<>> THEN normalize_text(e.alt)
    ELSE IF e.aria_label # <<>> THEN normalize_text(e.aria_label)
    ELSE IF e.aria_labelledby # "" THEN
        (IF e.labelledby_found THEN normalize_text(e.labelledby_text) ELSE <<>>)
    ELSE IF isLabel /\ e.for # "" THEN
        (IF e.for_found /\ e.placeholder # <<>>
         THEN normalize_text(e.placeholder) ELSE <<>>)
    ELSE <<>>

\* the alt of the first descendant image that has one
RECURSIVE FirstImgAlt(_)
FirstImgAlt(alts) ==
    IF alts = <<>> THEN <<>>
    ELSE IF Head(alts) # <<>> THEN normalize_text(Head(alts))
    ELSE FirstImgAlt(Tail(alts))

\* the text of the descriptor
ResolveText(e, isLabel) ==
    LET text == LongestText(e)
    IN  IF text # <<>> THEN text
        ELSE LET fromAttr == AttributeText(e, isLabel)
             IN  IF fromAttr # <<>> THEN fromAttr ELSE FirstImgAlt(e.img_alts)

\* the entry stored under the locator (a heading's entry has no 'for' key,
\* modelled as the empty value)
Descriptor(d, i) ==
    LET e == d[i]
        isLabel == e.tag = "label"
    IN  [tag |-> e.tag, id |-> e.id, text |-> ResolveText(e, isLabel),
         xpath |-> getXPath(d, i), alt |-> e.alt,
         aria_label |-> e.aria_label, aria_labelledby |-> e.aria_labelledby,
         for |-> IF isLabel THEN e.for ELSE ""]

\* elements[xpath] = info on an insertion-ordered dict: an existing key
\* keeps its place and takes the new value
DictSet(elems, info) ==
    IF \E k \in DOMAIN elems : elems[k].xpath = info.xpath
    THEN [k \in DOMAIN elems |-> IF elems[k].xpath = info.xpath THEN info ELSE elems[k]]
    ELSE Append(elems, info)

\* the body of the loop for one live element: a failed read is caught and
\* the element skipped
ScanOne(elems, d, i) ==
    IF d[i].stale THEN elems ELSE DictSet(elems, Descriptor(d, i))

\* the except handler of the loop body: with DEBUG on it prints
\* element.tag_name, a read of the element that failed; on a stale element
\* that read raises again, outside any try
HandlerRaises(e, debug) == debug /\ e.stale

\* the scan does not return: some handler raises
ScanRaises(d, debug) == \E i \in DOMAIN d : HandlerRaises(d[i], debug)

ScanTags == <<"h1", "h2", "h3", "h4", "h5", "h6", "label">>

\* the positions of dom with the given tag, in document order
RECURSIVE PositionsOf(_, _, _)
PositionsOf(d, tag, i) ==
    IF i > Len(d) THEN <<>>
    ELSE (IF d[i].tag = tag THEN <<i>> ELSE <<>>) \o PositionsOf(d, tag, i + 1)

\* the order of the browser queries: h1 .. h6, then the labels
RECURSIVE ScanOrderFrom(_, _)
ScanOrderFrom(d, t) ==
    IF t > Len(ScanTags) THEN <<>>
    ELSE PositionsOf(d, ScanTags[t], 1) \o ScanOrderFrom(d, t + 1)

ScanOrder(d) == ScanOrderFrom(d, 1)

\* the whole scan
RECURSIVE ScanFrom(_, _, _)
ScanFrom(elems, d, k) ==
    IF k > Len(ScanOrder(d)) THEN elems
    ELSE ScanFrom(ScanOne(elems, d, ScanOrder(d)[k]), d, k + 1)

get_page_content(d) == ScanFrom(<<>>, d, 1)

(***************************************************************************)
(* extract_headings and extract_labels                                     *)
(*                                                                         *)
(* soup is the static parse: the heading and label nodes in document       *)
(* order, each with its tag and its get_text(strip=True).                  *)
(***************************************************************************)
\* .replace(' ', '')
RECURSIVE RemoveSpaces(_)
RemoveSpaces(text) ==
    IF text = <<>> THEN <<>>
    ELSE (IF Head(text) = " " THEN <<>> ELSE <<Head(text)>>) \o RemoveSpaces(Tail(text))

\* a in b on strings: a is a contiguous part of b
IsSubstring(a, b) ==
    \E k \in 0..(Len(b) - Len(a)) : SubSeq(b, k + 1, k + Len(a)) = a

\* the condition of the first generator
ExactMatch(info, tag, text) ==
    /\ info.tag = tag
    /\ RemoveSpaces(normalize_text(info.text)) = RemoveSpaces(normalize_text(text))

\* the condition of the second generator: "x and y or z" is "(x and y) or z",
\* so the tag is tested only together with the first containment
ContainmentMatch(info, tag, text) ==
    \/ /\ info.tag = tag
       /\ IsSubstring(normalize_text(info.text), normalize_text(text))
    \/ IsSubstring(normalize_text(text), normalize_text(info.text))

\* the condition of the third generator
TagMatch(info, tag, text) == info.tag = tag

XPathUnknown == [form |-> "Unknown", id |-> "", tag |-> "", index |-> 0]

Min(S) == CHOOSE m \in S : \A n \in S : m <= n

\* the positions of the index that the three generators run over
ExactMatches(elems, tag, text) ==
    {k \in DOMAIN elems : ExactMatch(elems[k], tag, text)}

ContainmentMatches(elems, tag, text) ==
    {k \in DOMAIN elems : ContainmentMatch(elems[k], tag, text)}

TagMatches(elems, tag, text) ==
    {k \in DOMAIN elems : TagMatch(elems[k], tag, text)}

\* next(generator, default) nested three deep: the first position, in
\* insertion order, of the first generator that yields anything
ElementXPath(elems, tag, text) ==
    IF ExactMatches(elems, tag, text) # {}
    THEN elems[Min(ExactMatches(elems, tag, text))].xpath
    ELSE IF ContainmentMatches(elems, tag, text) # {}
    THEN elems[Min(ContainmentMatches(elems, tag, text))].xpath
    ELSE IF TagMatches(elems, tag, text) # {}
    THEN elems[Min(TagMatches(elems, tag, text))].xpath
    ELSE XPathUnknown

\* the records of the static nodes with the given tag, in document order
RECURSIVE NodesOf(_, _, _, _)
NodesOf(nodes, elems, tag, k) ==
    IF k > Len(nodes) THEN <<>>
    ELSE (IF nodes[k].tag = tag
          THEN <<[type |-> tag, text |-> nodes[k].text,
                  element_xpath |-> ElementXPath(elems, tag, nodes[k].text)]>>
          ELSE <<>>)
         \o NodesOf(nodes, elems, tag, k + 1)

HeadingTags == <<"h1", "h2", "h3", "h4", "h5", "h6">>

RECURSIVE HeadingsFrom(_, _, _)
HeadingsFrom(nodes, elems, level) ==
    IF level > Len(HeadingTags) THEN <<>>
    ELSE NodesOf(nodes, elems, HeadingTags[level], 1) \o HeadingsFrom(nodes, elems, level + 1)

extract_headings(nodes, elems) == HeadingsFrom(nodes, elems, 1)

extract_labels(nodes, elems) == NodesOf(nodes, elems, "label", 1)

(***************************************************************************)
(* The judgment reply and json5.loads                                      *)
(*                                                                         *)
(* A reply is text over these characters: the braces; "D", "N", "E", "R",  *)
(* each one whole member of an object ("descriptive": true,                *)
(* "descriptive": false, "evaluation": "...", "recommendations": [...]);   *)
(* "K", a key and its colon, whose value is the object that follows; "q",  *)
(* a quote, two of which delimit a string-valued member whose content may  *)
(* hold any character, braces included; "x", a character of prose.         *)
(***************************************************************************)
\* "T" stands for members named type, text and element_xpath, which a
\* reply is free to carry
MemberChars == {"D", "N", "E", "R", "T"}

EmptyObject ==
    [descriptive |-> "absent", evaluation |-> "absent", recommendations |-> "absent",
     type |-> "absent", text |-> "absent", element_xpath |-> "absent"]

\* one member added to the object under construction; a repeated key
\* overwrites the earlier value
WithMember(obj, c) ==
    CASE c = "D" -> [obj EXCEPT !.descriptive = "true"]
      [] c = "N" -> [obj EXCEPT !.descriptive = "false"]
      [] c = "E" -> [obj EXCEPT !.evaluation = "reply"]
      [] c = "R" -> [obj EXCEPT !.recommendations = "reply"]
      [] c = "T" -> [obj EXCEPT !.type = "reply", !.text = "reply",
                                !.element_xpath = "reply"]

\* 1-based position of the first c at or after i, 0 when there is none
RECURSIVE NextIndexOf(_, _, _)
NextIndexOf(s, c, i) ==
    IF i > Len(s) THEN 0
    ELSE IF s[i] = c THEN i
    ELSE NextIndexOf(s, c, i + 1)

\* the members of an object from position i up to its closing brace;
\* depth counts the enclosing objects, and only the members of the outermost
\* one are kept
RECURSIVE ParseMembers(_, _, _, _)
ParseMembers(s, i, depth, obj) ==
    IF i > Len(s) THEN [ok |-> FALSE, next |-> i, obj |-> obj]
    ELSE IF s[i] = "}" THEN
        IF depth = 1 THEN [ok |-> TRUE, next |-> i + 1, obj |-> obj]
        ELSE ParseMembers(s, i + 1, depth - 1, obj)
    ELSE IF s[i] \in MemberChars THEN
        ParseMembers(s, i + 1, depth, IF depth = 1 THEN WithMember(obj, s[i]) ELSE obj)
    ELSE IF s[i] = "K" THEN
        IF i + 1 <= Len(s) /\ s[i + 1] = "{"
        THEN ParseMembers(s, i + 2, depth + 1, obj)
        ELSE [ok |-> FALSE, next |-> i, obj |-> obj]
    ELSE IF s[i] = "q" THEN
        LET close == NextIndexOf(s, "q", i + 1)
        IN  IF close = 0 THEN [ok |-> FALSE, next |-> i, obj |-> obj]
            ELSE ParseMembers(s, close + 1, depth, obj)
    ELSE [ok |-> FALSE, next |-> i, obj |-> obj]

\* json5.loads(json_str): one object and nothing after it, or a failure
json5_loads(s) ==
    IF s = <<>> \/ s[1] # "{" THEN [ok |-> FALSE, obj |-> EmptyObject]
    ELSE LET p == ParseMembers(s, 2, 1, EmptyObject)
         IN  [ok |-> p.ok /\ p.next = Len(s) + 1, obj |-> p.obj]

(***************************************************************************)
(* analyze_elements: the step for one element                              *)
(***************************************************************************)
\* str.find(c): 0-based index of the first c, -1 when there is none
Find(text, c) == NextIndexOf(text, c, 1) - 1

\* str.rfind(c): 0-based index of the last c, -1 when there is none
RECURSIVE PrevIndexOf(_, _, _)
PrevIndexOf(s, c, i) ==
    IF i < 1 THEN 0
    ELSE IF s[i] = c THEN i
    ELSE PrevIndexOf(s, c, i - 1)

RFind(text, c) == PrevIndexOf(text, c, Len(text)) - 1

\* text[a:b] as Python slices: a negative bound counts from the end
PySlice(text, a, b) ==
    LET n  == Len(text)
        lo == IF a < 0 THEN (IF a + n < 0 THEN 0 ELSE a + n) ELSE (IF a > n THEN n ELSE a)
        hi == IF b < 0 THEN (IF b + n < 0 THEN 0 ELSE b + n) ELSE (IF b > n THEN n ELSE b)
    IN  SubSeq(text, lo + 1, hi)

JsonStart(text) == Find(text, "{")
JsonEnd(text) == RFind(text, "}") + 1

\* a plausible slip: the test for a missing opening brace is left out
HasJsonNoStartCheck(text) == JsonEnd(text) > JsonStart(text)

\* if json_start >= 0 and json_end > json_start
HasJson(text) == JsonStart(text) >= 0 /\ JsonEnd(text) > JsonStart(text)

\* json_str = response_text[json_start:json_end]
JsonStr(text) == PySlice(text, JsonStart(text), JsonEnd(text))

EvalParseError == "parse_error"
EvalNoJson == "no_json"
EvalRequestError == "request_error"
RecsRetry == "retry"

FailureRecord(element, evaluation) ==
    [type |-> element.type, text |-> element.text,
     element_xpath |-> element.element_xpath,
     descriptive |-> "false", evaluation |-> evaluation,
     recommendations |-> RecsRetry]

\* the parsed object with the element's own type, text and locator written
\* over it, and recommendations defaulted to the empty list
\* a plausible slip: the element's values are filled in only where the
\* reply has none
ParsedRecordKeepReply(element, obj) ==
    [type |-> IF obj.type = "reply" THEN "reply" ELSE element.type,
     text |-> IF obj.text = "reply" THEN <<"reply">> ELSE element.text,
     element_xpath |->
        IF obj.element_xpath = "reply"
        THEN [element.element_xpath EXCEPT !.form = "reply"]
        ELSE element.element_xpath,
     descriptive |-> obj.descriptive, evaluation |-> obj.evaluation,
     recommendations |->
        IF obj.recommendations = "absent" THEN "empty" ELSE obj.recommendations]

\* the parsed object with the element's type, text and locator written
\* over whatever the reply held under those keys
ParsedRecord(element, obj) ==
    [type |-> element.type, text |-> element.text,
     element_xpath |-> element.element_xpath,
     descriptive |-> obj.descriptive, evaluation |-> obj.evaluation,
     recommendations |->
        IF obj.recommendations = "absent" THEN "empty" ELSE obj.recommendations]

Raised == [raised |-> TRUE, appended |-> <<>>]
Appended(record) == [raised |-> FALSE, appended |-> <<record>>]

\* the body of the inner try: parse and append, or raise
TryParse(element, s) ==
    LET p == json5_loads(s)
    IN  IF p.ok THEN Appended(ParsedRecord(element, p.obj)) ELSE Raised

\* the extraction with the inner handler, which turns a parse failure into
\* a failure record
ExtractAndParse(element, text) ==
    IF HasJson(text)
    THEN LET r == TryParse(element, JsonStr(text))
         IN  IF r.raised THEN Appended(FailureRecord(element, EvalParseError)) ELSE r
    ELSE Appended(FailureRecord(element, EvalNoJson))

\* a plausible slip: an element whose remote call failed is left out
AnalyzeOneSkipFailed(element, call) ==
    IF call.failed THEN [raised |-> FALSE, appended |-> <<>>]
    ELSE LET r == ExtractAndParse(element, call.text)
         IN  IF r.raised THEN Appended(FailureRecord(element, EvalRequestError)) ELSE r

\* a plausible slip: no handler around the remote call
AnalyzeOneRaiseOnFailure(element, call) ==
    IF call.failed THEN Raised ELSE ExtractAndParse(element, call.text)

\* what is remembered of a remote call: whether it failed, and whether its
\* reply was an object that named a type, text and locator of its own
CallSummary(call) ==
    [failed |-> call.failed,
     named |-> /\ ~call.failed
               /\ HasJson(call.text)
               /\ json5_loads(JsonStr(call.text)).ok
               /\ json5_loads(JsonStr(call.text)).obj.type = "reply"]

\* the whole step with the outer handler: call is the remote call's outcome
AnalyzeOne(element, call) ==
    IF call.failed THEN Appended(FailureRecord(element, EvalRequestError))
    ELSE LET r == ExtractAndParse(element, call.text)
         IN  IF r.raised THEN Appended(FailureRecord(element, EvalRequestError)) ELSE r

(***************************************************************************)
(* check_headings_and_labels                                               *)
(***************************************************************************)
\* the record handed to analyze_elements for one entry of the index: the
\* text is the descriptor's, or else the raw alt or aria-label, followed by a
\* note naming the attribute.  (The html and context fields only feed the
\* prompt and are left out.)
ElementRecord(info) ==
    LET fromAlt  == info.text = <<>> /\ info.alt # <<>>
        fromAria == info.text = <<>> /\ info.alt = <<>> /\ info.aria_label # <<>>
        fromLby  == /\ info.text = <<>> /\ info.alt = <<>> /\ info.aria_label = <<>>
                    /\ info.aria_labelledby # ""
        fromFor  == /\ info.text = <<>> /\ info.alt = <<>> /\ info.aria_label = <<>>
                    /\ info.aria_labelledby = "" /\ info.tag = "label" /\ info.for # ""
        element_text == IF fromAlt THEN info.alt
                        ELSE IF fromAria THEN info.aria_label
                        ELSE info.text
        alt_info == IF fromAlt THEN <<"[alt]">>
                    ELSE IF fromAria THEN <<"[aria-label]">>
                    ELSE IF fromLby THEN <<"[aria-labelledby]">>
                    ELSE IF fromFor THEN <<"[for]">>
                    ELSE <<>>
    IN  [type |-> info.tag, text |-> element_text \o alt_info,
         element_xpath |-> info.xpath]

\* the records of the entries with the given tag, in the order of the index
RECURSIVE RecordsOf(_, _, _)
RecordsOf(elems, tag, k) ==
    IF k > Len(elems) THEN <<>>
    ELSE (IF elems[k].tag = tag THEN <<ElementRecord(elems[k])>> ELSE <<>>)
         \o RecordsOf(elems, tag, k + 1)

\* all_elements: the headings level by level, then the labels
RECURSIVE AllElementsFrom(_, _)
AllElementsFrom(elems, t) ==
    IF t > Len(ScanTags) THEN <<>>
    ELSE RecordsOf(elems, ScanTags[t], 1) \o AllElementsFrom(elems, t + 1)

AllElements(elems) == AllElementsFrom(elems, 1)

CountTag(elems, isHeading) ==
    Cardinality({k \in DOMAIN elems : (elems[k].tag # "label") = isHeading})

NoReport ==
    [present |-> FALSE, total_elements |-> 0, total_headings |-> 0,
     total_labels |-> 0, descriptive_elements |-> 0,
     non_descriptive_elements |-> 0, wcag_2_4_6_compliant |-> FALSE]

\* e['descriptive'] on a record without the field raises KeyError
PartitionFaults(analyzed) ==
    \E k \in DOMAIN analyzed : analyzed[k].descriptive = "absent"

FinalReport(all, headings, labels, analyzed) ==
    LET descriptive_elements ==
            {k \in DOMAIN analyzed : analyzed[k].descriptive = "true"}
        non_descriptive_elements ==
            {k \in DOMAIN analyzed : analyzed[k].descriptive # "true"}
    IN  [present |-> TRUE, total_elements |-> Len(all),
         total_headings |-> headings, total_labels |-> labels,
         descriptive_elements |-> Cardinality(descriptive_elements),
         non_descriptive_elements |-> Cardinality(non_descriptive_elements),
         wcag_2_4_6_compliant |-> Cardinality(non_descriptive_elements) = 0]

\* a plausible slip: a report is built also when nothing was analyzed
ReportWantedAlways(analyzed) == TRUE

\* if analyzed_elements: an empty list is false
ReportWanted(analyzed) == analyzed # <<>>

\* print_report reads element['evaluation'] of every record: a record
\* without the field raises KeyError (a recommendations value taken from a
\* reply is taken to be a list)
PrintFaults(analyzed) ==
    \E k \in DOMAIN analyzed : analyzed[k].evaluation = "absent"

\* a plausible slip: the session is released at the end of the body, not in
\* a finally clause
AfterTryNoFinally(e) == IF e = "none" THEN "quit" ELSE "done"

\* where control goes when the body of the try ends, normally or with an
\* exception e: the finally clause
AfterTry(e) == "quit"

\* what the caller gets once control is back
Outcome ==
    IF exc # "none" THEN "raised"
    ELSE IF final_report.present THEN "report"
    ELSE "none"

(***************************************************************************)
(* Specification Spec: one run of check_headings_and_labels.               *)
(***************************************************************************)
RunLiveElements ==
    {PlainElement(tag, id, <<"a">>, FALSE) : tag \in {"h1", "label"}, id \in {"", "i"}}
        \cup {PlainElement("h1", "", <<"a">>, TRUE)}
        \cup {LiveElement("label", "", <<>>, <<>>, <<>>, <<>>, <<" ">>, "", FALSE, <<>>, "ctl", FALSE, <<>>, <<>>, FALSE)}

RunChars == {"{", "}", "D", "N", "T"}

\* the outcomes of client.messages.create: a failure, or a reply text
RunCalls ==
    {[failed |-> TRUE, text |-> <<>>]}
        \cup {[failed |-> FALSE, text |-> t] : t \in SeqsUpTo(RunChars, MaxRunReplyLen)}

\* the ways one iteration of the loop can go for an element, over all
\* outcomes of the remote call
Iterations(element) ==
    {[summary |-> CallSummary(call), r |-> AnalyzeOne(element, call)] : call \in RunCalls}

RunIdle ==
    /\ pc = "idle"
    /\ driver = "none"
    /\ temp_dir = "none"
    /\ exc = "none"
    /\ all_elements = <<>>
    /\ heading_count = 0
    /\ label_count = 0
    /\ analyzed_elements = <<>>
    /\ call_log = <<>>
    /\ final_report = NoReport
    /\ exit_status = -1

(***************************************************************************)
(* Specification SpecRecover: the step for one element, applied to every   *)
(* bounded reply text.                                                     *)
(***************************************************************************)
RecoverChars == {"{", "}", "D", "K", "q", "x"}

SampleElement == [type |-> "h1", text |-> <<"a">>, element_xpath |-> "/html/body/h1"]

NormIdle ==
    /\ norm_pc = "idle"
    /\ norm_in = <<>>
    /\ norm_out = <<>>
    /\ norm_out2 = <<>>

RecIdle ==
    /\ rec_pc = "idle"
    /\ response_text = <<>>
    /\ json_str = <<>>
    /\ rec_result = Raised

TextIdle ==
    /\ text_pc = "idle"
    /\ live = PlainElement("h1", "", <<>>, FALSE)
    /\ text_out = <<>>

ScanIdle ==
    /\ scan_pc = "idle"
    /\ dom = <<>>
    /\ scan_k = 0
    /\ elements = <<>>
    /\ DEBUG = FALSE

CorrIdle ==
    /\ corr_pc = "idle"
    /\ soup = <<>>
    /\ corr_elements = <<>>
    /\ corr_headings = <<>>
    /\ corr_labels = <<>>

RecInit ==
    /\ rec_pc = "reply"
    /\ response_text \in SeqsUpTo(RecoverChars, MaxReplyLen)
    /\ json_str = <<>>
    /\ rec_result = Raised
    /\ NormIdle /\ TextIdle /\ ScanIdle /\ RunIdle /\ CorrIdle

RecoverStep ==
    /\ rec_pc = "reply"
    /\ json_str' = IF HasJson(response_text) THEN JsonStr(response_text) ELSE <<>>
    /\ rec_result' = AnalyzeOne(SampleElement, [failed |-> FALSE, text |-> response_text])
    /\ rec_pc' = "done"
    /\ UNCHANGED <<response_text, norm_vars, text_vars, scan_vars, run_vars, corr_vars>>

RecNext == RecoverStep

SpecRecover == RecInit /\ [][RecNext]_vars

\* C4: for every reply text the step for one element ends with exactly one
\* record appended and nothing raised; the record is the parsed result or a
\* failure record with descriptive = false; and a reply with no opening
\* brace ends in the "no structure found" failure record.
C4_RecoverNeverRaises ==
    rec_pc = "done" =>
        /\ ~rec_result.raised
        /\ Len(rec_result.appended) = 1
        /\ LET r == rec_result.appended[1]
           IN  /\ \/ /\ json_str # <<>>
                        /\ json5_loads(json_str).ok
                        /\ r = ParsedRecord(SampleElement, json5_loads(json_str).obj)
                     \/ /\ r.descriptive = "false"
                        /\ r.evaluation \in {EvalParseError, EvalNoJson}
               /\ (\A i \in DOMAIN response_text : response_text[i] # "{")
                      => r = FailureRecord(SampleElement, EvalNoJson)

\* a reply with a closing brace and no opening brace was processed
C4_Witness ==
    /\ rec_pc = "done"
    /\ response_text = <<"x", "}", "x">>
    /\ rec_result.appended[1].evaluation = EvalNoJson

\* 1-based position where the nesting depth, counted from position i, first
\* returns to zero; 0 when it never does
RECURSIVE DepthZeroAt(_, _, _)
DepthZeroAt(s, i, depth) ==
    IF i > Len(s) THEN 0
    ELSE IF s[i] = "{" THEN DepthZeroAt(s, i + 1, depth + 1)
    ELSE IF s[i] = "}" THEN (IF depth = 1 THEN i ELSE DepthZeroAt(s, i + 1, depth - 1))
    ELSE DepthZeroAt(s, i + 1, depth)

\* the text from the first opening brace to the closing brace matching it
EmbeddedObject(text) ==
    LET start == NextIndexOf(text, "{", 1)
        stop  == IF start = 0 THEN 0 ELSE DepthZeroAt(text, start, 0)
    IN  IF stop = 0 THEN <<>> ELSE SubSeq(text, start, stop)

\* C5 (as claimed): when the reply holds a balanced, well-formed object
\* between prose, the text handed to the parser is exactly that object, and
\* the record is the parsed object, whatever follows it.
C5_ExtractsEmbeddedObject ==
    (rec_pc = "done" /\ json5_loads(EmbeddedObject(response_text)).ok) =>
        /\ json_str = EmbeddedObject(response_text)
        /\ rec_result.appended[1] =
               ParsedRecord(SampleElement, json5_loads(EmbeddedObject(response_text)).obj)

Count(s, c) == Cardinality({i \in DOMAIN s : s[i] = c})

\* the repair the claim describes: from the first opening brace, cut after
\* the last closing brace and append the closing braces still missing
RepairedText(text) ==
    LET start == NextIndexOf(text, "{", 1)
        stop  == PrevIndexOf(text, "}", Len(text))
        kept  == IF start = 0 \/ stop < start THEN <<>> ELSE SubSeq(text, start, stop)
        RECURSIVE Closers(_)
        Closers(n) == IF n <= 0 THEN <<>> ELSE <<"}">> \o Closers(n - 1)
    IN  kept \o Closers(Count(kept, "{") - Count(kept, "}"))

\* C6 (as claimed): a reply with fewer closing than opening braces whose
\* repaired text parses yields the parsed object, not a failure record.
C6_TruncatedReplyRepaired ==
    (/\ rec_pc = "done"
     /\ Count(response_text, "}") < Count(response_text, "{")
     /\ json5_loads(RepairedText(response_text)).ok) =>
        rec_result.appended[1] =
            ParsedRecord(SampleElement, json5_loads(RepairedText(response_text)).obj)

(***************************************************************************)
(* Specification SpecText: the text of the descriptor of one live element, *)
(* for every combination of the browser's answers.                         *)
(***************************************************************************)
TextLiveElements ==
    {LiveElement(tag, "", visible, inner, content, alt, aria,
                 lby[1], lby[2], lby[3], for[1], for[2], for[3], imgs, FALSE) :
        tag \in {"h1", "label"},
        visible \in {<<>>, <<"a">>},
        inner \in {<<>>, <<"a">>},
        content \in {<<>>, <<" ">>, <<"a", "b">>},
        alt \in {<<>>, <<" ">>, <<"t">>},
        aria \in {<<>>, <<" ">>, <<"r">>},
        lby \in {<<"", FALSE, <<>>>>, <<"ref", FALSE, <<>>>>,
                 <<"ref", TRUE, <<>>>>, <<"ref", TRUE, <<"l">>>>},
        for \in {<<"", FALSE, <<>>>>, <<"ctl", FALSE, <<>>>>,
                 <<"ctl", TRUE, <<>>>>, <<"ctl", TRUE, <<"p">>>>},
        imgs \in {<<>>, <<<<"i">>>>, <<<<>>, <<"i">>>>}}

TextInit ==
    /\ text_pc = "read"
    /\ live \in TextLiveElements
    /\ text_out = <<>>
    /\ NormIdle /\ RecIdle /\ ScanIdle /\ RunIdle /\ CorrIdle

ExtractText ==
    /\ text_pc = "read"
    /\ text_out' = ResolveText(live, live.tag = "label")
    /\ text_pc' = "done"
    /\ UNCHANGED <<live, norm_vars, rec_vars, scan_vars, run_vars, corr_vars>>

TextNext == ExtractText

SpecText == TextInit /\ [][TextNext]_vars

EmptyLabelWithAriaLabel ==
    /\ text_pc = "done"
    /\ live.tag = "label"
    /\ normalize_text(live.text) = <<>>
    /\ normalize_text(live.innerText) = <<>>
    /\ normalize_text(live.textContent) = <<>>
    /\ live.aria_label # <<>>

\* C9 (as claimed): a label whose three text reads are empty after
\* normalisation and which has a non-empty aria-label gets the normalised
\* aria-label as its text.
C9_AriaLabelFallback_Original ==
    EmptyLabelWithAriaLabel => text_out = normalize_text(live.aria_label)

\* C9 (amended): a label whose three text reads are empty after
\* normalisation, which has no alt value and whose aria-label normalises to
\* a non-empty text, gets the normalised aria-label as its text.
C9_AriaLabelFallback ==
    (/\ EmptyLabelWithAriaLabel
     /\ live.alt = <<>>
     /\ normalize_text(live.aria_label) # <<>>) =>
        text_out = normalize_text(live.aria_label)

\* an empty label with an aria-label, an aria-labelledby target with text,
\* a for target with a placeholder and an image with an alt was resolved
C9_Witness ==
    /\ EmptyLabelWithAriaLabel
    /\ live.alt = <<>>
    /\ live.aria_label = <<"r">>
    /\ live.labelledby_found /\ live.labelledby_text = <<"l">>
    /\ live.for_found /\ live.placeholder = <<"p">>
    /\ live.img_alts = <<<<"i">>>>
    /\ text_out = <<"r">>

\* the first text of a sequence of candidates that is not empty
RECURSIVE FirstNonEmpty(_)
FirstNonEmpty(texts) ==
    IF texts = <<>> THEN <<>>
    ELSE IF Head(texts) # <<>> THEN Head(texts)
    ELSE FirstNonEmpty(Tail(texts))

\* the stated priority, each step tried while the steps before it gave an
\* empty text after normalisation
PriorityText(e) ==
    FirstNonEmpty(<<
        LongestText(e),
        normalize_text(e.alt),
        normalize_text(e.aria_label),
        IF e.aria_labelledby # "" /\ e.labelledby_found
            THEN normalize_text(e.labelledby_text) ELSE <<>>,
        IF e.tag = "label" /\ e.for # "" /\ e.for_found
            THEN normalize_text(e.placeholder) ELSE <<>>,
        FirstImgAlt(e.img_alts)>>)

\* C14 (as claimed): the resolved text is the text of the first step, in the
\* stated priority, that is not empty after normalisation; a blank alt does
\* not stop aria-label and an unresolved aria-labelledby does not stop the
\* placeholder of the for target.
C14_StepsFallThrough ==
    text_pc = "done" => text_out = PriorityText(live)

(***************************************************************************)
(* Specification SpecScan: the page scan, one live element at a time.      *)
(***************************************************************************)
ScanLiveElements ==
    {PlainElement(tag, id, text, stale) :
        tag \in {"h1", "h2", "label"}, id \in {"", "i"},
        text \in {<<"a">>, <<"b">>}, stale \in BOOLEAN}

ScanInit ==
    /\ scan_pc = "scan"
    /\ dom \in SeqsUpTo(ScanLiveElements, MaxDom)
    /\ scan_k = 1
    /\ elements = <<>>
    /\ DEBUG \in BOOLEAN
    /\ NormIdle /\ RecIdle /\ TextIdle /\ RunIdle /\ CorrIdle

ScanElement ==
    /\ scan_pc = "scan"
    /\ scan_k <= Len(ScanOrder(dom))
    /\ ~HandlerRaises(dom[ScanOrder(dom)[scan_k]], DEBUG)
    /\ elements' = ScanOne(elements, dom, ScanOrder(dom)[scan_k])
    /\ scan_k' = scan_k + 1
    /\ UNCHANGED <<scan_pc, dom, DEBUG, norm_vars, rec_vars, text_vars, run_vars, corr_vars>>

\* the handler of the element raises: get_page_content is left by the
\* exception and the index built so far is lost to the caller
ScanElementRaises ==
    /\ scan_pc = "scan"
    /\ scan_k <= Len(ScanOrder(dom))
    /\ HandlerRaises(dom[ScanOrder(dom)[scan_k]], DEBUG)
    /\ scan_pc' = "raised"
    /\ UNCHANGED <<dom, scan_k, elements, DEBUG, norm_vars, rec_vars, text_vars, run_vars,
                   corr_vars>>

ScanReturn ==
    /\ scan_pc = "scan"
    /\ scan_k > Len(ScanOrder(dom))
    /\ scan_pc' = "done"
    /\ UNCHANGED <<dom, scan_k, elements, DEBUG, norm_vars, rec_vars, text_vars, run_vars,
                   corr_vars>>

ScanNext == ScanElement \/ ScanElementRaises \/ ScanReturn

SpecScan == ScanInit /\ [][ScanNext]_vars

\* the positions of dom that a locator selects
Resolve(d, xpath) ==
    IF xpath.form = "byId" THEN {j \in DOMAIN d : d[j].id = xpath.id}
    ELSE {j \in DOMAIN d : getXPath(d, j) = xpath}

\* the entries of the index stored under a locator
Lookup(elems, xpath) == {elems[k] : k \in {n \in DOMAIN elems : elems[n].xpath = xpath}}

\* C8 (as claimed): after the scan, for every live heading or label with a
\* non-empty id that was read, the locator is the by-id form, it selects
\* that element and no other in the DOM, and the index holds under it the
\* descriptor of that element.
C8_ByIdLocatorResolves ==
    scan_pc = "done" =>
        \A i \in DOMAIN dom :
            (dom[i].id # "" /\ ~dom[i].stale) =>
                /\ getXPath(dom, i).form = "byId"
                /\ Resolve(dom, getXPath(dom, i)) = {i}
                /\ Lookup(elements, getXPath(dom, i)) = {Descriptor(dom, i)}

\* the index built from the elements that could be read among the first n
\* of the scan order
RECURSIVE ReadableIndex(_, _, _)
ReadableIndex(d, order, n) ==
    IF n = 0 THEN <<>>
    ELSE IF d[order[n]].stale THEN ReadableIndex(d, order, n - 1)
    ELSE DictSet(ReadableIndex(d, order, n - 1), Descriptor(d, order[n]))

\* C15 (as claimed): a stale element is skipped and nothing else: the scan
\* never ends on it, at every point the index is the one built from the
\* readable elements scanned so far, and the scan returns only after every
\* heading and label has been visited.
C15_StaleElementSkippedOnly ==
    /\ scan_pc # "raised"
    /\ scan_pc \in {"scan", "done"} =>
           elements = ReadableIndex(dom, ScanOrder(dom), scan_k - 1)
    /\ scan_pc = "done" => scan_k = Len(ScanOrder(dom)) + 1

(***************************************************************************)
(* The actions of specification Spec.  pc is the position in               *)
(* check_headings_and_labels; exc is the exception in flight, if any.      *)
(***************************************************************************)
Init ==
    /\ pc = "start"
    /\ driver = "none"
    /\ temp_dir = "none"
    /\ exc = "none"
    /\ all_elements = <<>>
    /\ heading_count = 0
    /\ label_count = 0
    /\ analyzed_elements = <<>>
    /\ call_log = <<>>
    /\ final_report = NoReport
    /\ exit_status = -1
    /\ dom = <<>>
    /\ elements = <<>>
    /\ scan_pc = "idle"
    /\ scan_k = 0
    /\ DEBUG \in BOOLEAN
    /\ NormIdle /\ RecIdle /\ TextIdle /\ CorrIdle

Others == <<norm_vars, rec_vars, text_vars, scan_pc, scan_k, DEBUG, corr_vars, exit_status>>

\* setup_driver succeeds: the temporary directory and the session exist
SetupDriver ==
    /\ pc = "start"
    /\ driver' = "open"
    /\ temp_dir' = "exists"
    /\ pc' = "navigate"
    /\ UNCHANGED <<exc, all_elements, heading_count, label_count, analyzed_elements,
                   call_log, final_report, dom, elements, Others>>

\* setup_driver raises, before or after mkdtemp: no session exists and the
\* exception is re-raised to the caller
SetupDriverFails ==
    /\ pc = "start"
    /\ temp_dir' \in {"none", "exists"}
    /\ exc' = "setup"
    /\ pc' = "done"
    /\ UNCHANGED <<driver, all_elements, heading_count, label_count,
                   analyzed_elements, call_log, final_report, dom, elements, Others>>

\* driver.get and the wait for the body succeed: some page is loaded
Navigate ==
    /\ pc = "navigate"
    /\ dom' \in SeqsUpTo(RunLiveElements, MaxDom)
    /\ pc' = "scan"
    /\ UNCHANGED <<driver, temp_dir, exc, all_elements, heading_count, label_count,
                   analyzed_elements, call_log, final_report, elements, Others>>

\* driver.get raises or the wait times out
NavigateFails ==
    /\ pc = "navigate"
    /\ exc' = "navigation"
    /\ pc' = AfterTry("navigation")
    /\ UNCHANGED <<driver, temp_dir, all_elements, heading_count, label_count,
                   analyzed_elements, call_log, final_report, dom, elements, Others>>

\* get_page_content, then the index turned into all_elements and the counts
ScanPage ==
    /\ pc = "scan"
    /\ ~ScanRaises(dom, DEBUG)
    /\ elements' = get_page_content(dom)
    /\ all_elements' = AllElements(elements')
    /\ heading_count' = CountTag(elements', TRUE)
    /\ label_count' = CountTag(elements', FALSE)
    /\ pc' = "client"
    /\ UNCHANGED <<driver, temp_dir, exc, analyzed_elements, call_log, final_report,
                   dom, Others>>

\* a browser query outside the per-element handlers raises, or the handler
\* of a failed element raises itself
ScanPageFails ==
    /\ pc = "scan"
    /\ exc' = "scan"
    /\ pc' = AfterTry("scan")
    /\ UNCHANGED <<driver, temp_dir, all_elements, heading_count, label_count,
                   analyzed_elements, call_log, final_report, dom, elements, Others>>

\* analyze_elements starts: the client is constructed
CreateClient ==
    /\ pc = "client"
    /\ pc' = "analyze"
    /\ UNCHANGED <<driver, temp_dir, exc, all_elements, heading_count, label_count,
                   analyzed_elements, call_log, final_report, dom, elements, Others>>

\* the construction of the client raises
CreateClientFails ==
    /\ pc = "client"
    /\ exc' = "analysis"
    /\ pc' = AfterTry("analysis")
    /\ UNCHANGED <<driver, temp_dir, all_elements, heading_count, label_count,
                   analyzed_elements, call_log, final_report, dom, elements, Others>>

\* one iteration of the loop of analyze_elements: the remote call for the
\* next element and the handling of its outcome; call_log keeps, for each
\* iteration, the summary of its remote call
AnalyzeElement ==
    /\ pc = "analyze"
    /\ Len(call_log) < Len(all_elements)
    /\ \E it \in Iterations(all_elements[Len(call_log) + 1]) :
          /\ call_log' = Append(call_log, it.summary)
          /\ analyzed_elements' = analyzed_elements \o it.r.appended
          /\ exc' = IF it.r.raised THEN "analysis" ELSE exc
          /\ pc' = IF it.r.raised THEN AfterTry("analysis") ELSE pc
    /\ UNCHANGED <<driver, temp_dir, all_elements, heading_count, label_count,
                   final_report, dom, elements, Others>>

\* the loop is over: analyze_elements returns
AnalyzeReturn ==
    /\ pc = "analyze"
    /\ Len(call_log) = Len(all_elements)
    /\ pc' = "report"
    /\ UNCHANGED <<driver, temp_dir, exc, all_elements, heading_count, label_count,
                   analyzed_elements, call_log, final_report, dom, elements, Others>>

\* if analyzed_elements: the partition and the report; a record without
\* 'descriptive' makes the partition raise KeyError
MakeReport ==
    /\ pc = "report"
    /\ ReportWanted(analyzed_elements)
    /\ IF PartitionFaults(analyzed_elements)
       THEN /\ exc' = "report"
            /\ pc' = AfterTry("report")
            /\ UNCHANGED final_report
       ELSE /\ final_report' = FinalReport(all_elements, heading_count, label_count,
                                           analyzed_elements)
            /\ pc' = AfterTry("none")
            /\ UNCHANGED exc
    /\ UNCHANGED <<driver, temp_dir, all_elements, heading_count, label_count,
                   analyzed_elements, call_log, dom, elements, Others>>

\* nothing was analyzed: the function falls off its end and returns None
NoReportReturn ==
    /\ pc = "report"
    /\ ~ReportWanted(analyzed_elements)
    /\ pc' = AfterTry("none")
    /\ UNCHANGED <<driver, temp_dir, exc, all_elements, heading_count, label_count,
                   analyzed_elements, call_log, final_report, dom, elements, Others>>

\* finally: driver.quit()
DriverQuit ==
    /\ pc = "quit"
    /\ driver' = "quit"
    /\ pc' = "cleanup"
    /\ UNCHANGED <<temp_dir, exc, all_elements, heading_count, label_count,
                   analyzed_elements, call_log, final_report, dom, elements, Others>>

\* finally: cleanup_temp_dir(temp_dir), which never raises; then control is
\* back in the caller, with the report, None or the exception
CleanupTempDir ==
    /\ pc = "cleanup"
    /\ temp_dir' = "cleaned"
    /\ pc' = "done"
    /\ UNCHANGED <<driver, exc, all_elements, heading_count, label_count,
                   analyzed_elements, call_log, final_report, dom, elements, Others>>

\* main, if report: print_report(report); the process ends with status 0,
\* or with status 1 when print_report raises into except Exception
MainPrintReport ==
    /\ pc = "done"
    /\ Outcome = "report"
    /\ exit_status' = IF PrintFaults(analyzed_elements) THEN 1 ELSE 0
    /\ pc' = "exited"
    /\ UNCHANGED <<driver, temp_dir, exc, all_elements, heading_count, label_count,
                   analyzed_elements, call_log, final_report, dom, elements,
                   norm_vars, rec_vars, text_vars, scan_pc, scan_k, DEBUG, corr_vars>>

\* main, else: None came back; the error line and sys.exit(1)
MainNoReport ==
    /\ pc = "done"
    /\ Outcome = "none"
    /\ exit_status' = 1
    /\ pc' = "exited"
    /\ UNCHANGED <<driver, temp_dir, exc, all_elements, heading_count, label_count,
                   analyzed_elements, call_log, final_report, dom, elements,
                   norm_vars, rec_vars, text_vars, scan_pc, scan_k, DEBUG, corr_vars>>

\* main, except Exception: the error line and sys.exit(1)
MainException ==
    /\ pc = "done"
    /\ Outcome = "raised"
    /\ exit_status' = 1
    /\ pc' = "exited"
    /\ UNCHANGED <<driver, temp_dir, exc, all_elements, heading_count, label_count,
                   analyzed_elements, call_log, final_report, dom, elements,
                   norm_vars, rec_vars, text_vars, scan_pc, scan_k, DEBUG, corr_vars>>

Next ==
    \/ SetupDriver \/ SetupDriverFails
    \/ Navigate \/ NavigateFails
    \/ ScanPage \/ ScanPageFails
    \/ CreateClient \/ CreateClientFails
    \/ AnalyzeElement \/ AnalyzeReturn
    \/ MakeReport \/ NoReportReturn
    \/ DriverQuit \/ CleanupTempDir
    \/ MainPrintReport \/ MainNoReport \/ MainException

Spec == Init /\ [][Next]_vars

\* C1: whenever a report is produced, descriptive_elements +
\* non_descriptive_elements = total_elements and wcag_2_4_6_compliant is
\* true exactly when non_descriptive_elements = 0, whatever the outcomes of
\* the individual elements were.
C1_ReportCountsConsistent ==
    final_report.present =>
        /\ final_report.descriptive_elements + final_report.non_descriptive_elements
               = final_report.total_elements
        /\ final_report.wcag_2_4_6_compliant
               = (final_report.non_descriptive_elements = 0)
        /\ final_report.total_elements = Len(all_elements)

\* a report over two elements, the first of which had a failed remote call
\* and the second a reply that was no object
C1_Witness ==
    /\ final_report.present
    /\ final_report.total_elements = 2
    /\ call_log[1].failed
    /\ analyzed_elements[2].evaluation = EvalNoJson

\* C2 (as claimed): every record of analyzed_elements carries descriptive,
\* so the partition of the report never faults.
C2_DescriptiveAlwaysPresent ==
    /\ \A k \in DOMAIN analyzed_elements :
           analyzed_elements[k].descriptive \in {"true", "false"}
    /\ exc # "report"

\* the iterations of the loop in which the remote call failed
FailedCalls == {k \in DOMAIN call_log : call_log[k].failed}

\* C3: an element whose remote call failed is recorded with descriptive =
\* false and the request-error evaluation, under its own type, text and
\* locator; the failure raises nothing, and the loop goes on: when
\* analyze_elements returns, every element was sent and recorded.
C3_CallFailureDoesNotAbort ==
    /\ \A k \in FailedCalls :
           /\ k \in DOMAIN analyzed_elements
           /\ analyzed_elements[k] = FailureRecord(all_elements[k], EvalRequestError)
    /\ (FailedCalls # {} /\ pc \in {"analyze", "report"}) => exc = "none"
    /\ pc = "report" =>
           /\ Len(call_log) = Len(all_elements)
           /\ Len(analyzed_elements) = Len(all_elements)

\* the first of two remote calls failed, and the second element was still
\* sent and its reply recorded as parsed
C3_Witness ==
    /\ pc = "report"
    /\ Len(all_elements) = 2
    /\ call_log[1].failed
    /\ ~call_log[2].failed
    /\ analyzed_elements[2].descriptive = "true"

\* C10: once the session exists, control is back in the caller only after
\* driver.quit() and cleanup_temp_dir have run, on the return of a report, on
\* the return of None and when an exception propagates.
C10_SessionReleasedOnEveryExit ==
    (pc = "done" /\ driver # "none") =>
        /\ driver = "quit"
        /\ temp_dir = "cleaned"

\* a navigation failure reached the caller after the cleanup
C10_Witness ==
    /\ pc = "done"
    /\ exc = "navigation"
    /\ driver = "quit"
    /\ temp_dir = "cleaned"

\* C16: the records of analyze_elements stand one to one, in order, for the
\* elements given to it, and each record carries the type, text and locator
\* of its element whatever the reply held; when the function returns there
\* is one record per element.
C16_RecordsKeepElementIdentity ==
    /\ Len(analyzed_elements) = Len(call_log)
    /\ Len(analyzed_elements) <= Len(all_elements)
    /\ \A k \in DOMAIN analyzed_elements :
           /\ analyzed_elements[k].type = all_elements[k].type
           /\ analyzed_elements[k].text = all_elements[k].text
           /\ analyzed_elements[k].element_xpath = all_elements[k].element_xpath
    /\ pc = "report" => Len(analyzed_elements) = Len(all_elements)

\* analyze_elements returned for two different elements; the reply for the
\* first was an object carrying its own type, text and locator, the remote
\* call for the second failed
C16_Witness ==
    /\ pc = "report"
    /\ Len(all_elements) = 2
    /\ all_elements[1] # all_elements[2]
    /\ call_log[1].named
    /\ analyzed_elements[1].type = all_elements[1].type
    /\ call_log[2].failed

\* the scan returned and gave no heading and no label
EmptyScan ==
    /\ pc \in {"client", "analyze", "report", "quit", "cleanup", "done", "exited"}
    /\ exc \notin {"setup", "navigation", "scan"}
    /\ all_elements = <<>>

\* C17: when the scan gives no heading and no label, no judgment call is
\* made and no report is built, at any point; once control is back in main
\* the session is released, and the process ends with status 1.
C17_EmptyPageGivesNoReport ==
    EmptyScan =>
        /\ call_log = <<>>
        /\ ~final_report.present
        /\ exc # "report"
        /\ pc \in {"done", "exited"} => (driver = "quit" /\ temp_dir = "cleaned")
        /\ pc = "exited" => exit_status = 1

\* a page whose only heading went stale was scanned, None came back and
\* the process ended
C17_Witness ==
    /\ pc = "exited"
    /\ EmptyScan
    /\ dom # <<>>
    /\ exc = "none"
    /\ driver = "quit"
    /\ exit_status = 1

(***************************************************************************)
(* Specification SpecCorr: extract_headings and extract_labels on a        *)
(* bounded static parse and a bounded index.                               *)
(***************************************************************************)
CorrTags == {"h1", "h2", "label"}
\* texts of index entries are stored normalized; static texts are only stripped
CorrTexts == {<<>>, <<"a">>, <<"a", "b">>}
SoupTags == {"h1", "label"}
SoupTexts == {<<>>, <<"a">>, <<"a", " ", "b">>}

\* an index as get_page_content builds it: one entry per locator
CorrIndex(pairs) ==
    [k \in DOMAIN pairs |->
        [tag |-> pairs[k][1], id |-> "", text |-> pairs[k][2],
         xpath |-> [form |-> "path", id |-> "", tag |-> pairs[k][1], index |-> k],
         alt |-> <<>>, aria_label |-> <<>>, aria_labelledby |-> "", for |-> ""]]

CorrInit ==
    /\ corr_pc = "headings"
    /\ soup \in SeqsUpTo([tag : SoupTags, text : SoupTexts], MaxNodes)
    /\ corr_elements \in {CorrIndex(pairs) : pairs \in SeqsUpTo(CorrTags \X CorrTexts, MaxIndex)}
    /\ corr_headings = <<>>
    /\ corr_labels = <<>>
    /\ NormIdle /\ RecIdle /\ TextIdle /\ ScanIdle /\ RunIdle

ExtractHeadings ==
    /\ corr_pc = "headings"
    /\ corr_headings' = extract_headings(soup, corr_elements)
    /\ corr_pc' = "labels"
    /\ UNCHANGED <<soup, corr_elements, corr_labels, norm_vars, rec_vars, text_vars,
                   scan_vars, run_vars>>

ExtractLabels ==
    /\ corr_pc = "labels"
    /\ corr_labels' = extract_labels(soup, corr_elements)
    /\ corr_pc' = "done"
    /\ UNCHANGED <<soup, corr_elements, corr_headings, norm_vars, rec_vars, text_vars,
                   scan_vars, run_vars>>

CorrNext == ExtractHeadings \/ ExtractLabels

SpecCorr == CorrInit /\ [][CorrNext]_vars

\* the records of both functions
Correlated == corr_headings \o corr_labels

\* the entries of the index with a given tag
OfTag(tag) == {k \in DOMAIN corr_elements : corr_elements[k].tag = tag}

\* C11 (as claimed): every locator assigned to a static node is the sentinel
\* or the locator of a descriptor of the node's own tag.
C11_LocatorOfSameTag ==
    \A n \in DOMAIN Correlated :
        \/ Correlated[n].element_xpath = XPathUnknown
        \/ \E k \in OfTag(Correlated[n].type) :
               corr_elements[k].xpath = Correlated[n].element_xpath

\* C12 (as claimed): a static node gets the sentinel exactly when the index
\* holds no descriptor of its tag.
C12_SentinelIffNoSameTag ==
    \A n \in DOMAIN Correlated :
        (Correlated[n].element_xpath = XPathUnknown) <=> (OfTag(Correlated[n].type) = {})

\* the pairing the claim describes: the first same-tag exact match, else the
\* first same-tag containment match, else the first same-tag descriptor
SameTagContainment(tag, text) ==
    {k \in OfTag(tag) :
        \/ IsSubstring(normalize_text(corr_elements[k].text), normalize_text(text))
        \/ IsSubstring(normalize_text(text), normalize_text(corr_elements[k].text))}

SameTagExact(tag, text) ==
    {k \in OfTag(tag) :
        RemoveSpaces(normalize_text(corr_elements[k].text)) = RemoveSpaces(normalize_text(text))}

TieredXPath(tag, text) ==
    IF SameTagExact(tag, text) # {} THEN corr_elements[Min(SameTagExact(tag, text))].xpath
    ELSE IF SameTagContainment(tag, text) # {}
    THEN corr_elements[Min(SameTagContainment(tag, text))].xpath
    ELSE IF OfTag(tag) # {} THEN corr_elements[Min(OfTag(tag))].xpath
    ELSE XPathUnknown

\* C13 (as claimed): each static node is paired by the tiers in order, the
\* first hit in insertion order winning within a tier.
C13_TiersInOrder ==
    \A n \in DOMAIN Correlated :
        Correlated[n].element_xpath = TieredXPath(Correlated[n].type, Correlated[n].text)

(***************************************************************************)
(* Specification SpecNorm: normalize_text applied to a bounded input, and  *)
(* then to its own result.                                                 *)
(***************************************************************************)
NormInit ==
    /\ norm_pc = "input"
    /\ norm_in \in SeqsUpTo(NormChars, MaxNormLen)
    /\ norm_out = <<>>
    /\ norm_out2 = <<>>
    /\ RecIdle /\ TextIdle /\ ScanIdle /\ RunIdle /\ CorrIdle

NormalizeOnce ==
    /\ norm_pc = "input"
    /\ norm_out' = normalize_text(norm_in)
    /\ norm_pc' = "once"
    /\ UNCHANGED <<norm_in, norm_out2, rec_vars, text_vars, scan_vars, run_vars, corr_vars>>

NormalizeTwice ==
    /\ norm_pc = "once"
    /\ norm_out2' = normalize_text(norm_out)
    /\ norm_pc' = "twice"
    /\ UNCHANGED <<norm_in, norm_out, rec_vars, text_vars, scan_vars, run_vars, corr_vars>>

NormNext == NormalizeOnce \/ NormalizeTwice

SpecNorm == NormInit /\ [][NormNext]_vars

\* C7: normalize_text is idempotent, and its result has no two consecutive
\* spaces and no leading or trailing space (nor any other whitespace or
\* control character), for every bounded input.
NoSpaceRuns(s) ==
    /\ \A i \in DOMAIN s : IsSpace(s[i]) => s[i] = " "
    /\ \A i \in DOMAIN s : s[i] # "CTRL"
    /\ \A i \in 1..(Len(s) - 1) : ~(s[i] = " " /\ s[i + 1] = " ")
    /\ s # <<>> => (s[1] # " " /\ s[Len(s)] # " ")

C7_NormalizeIdempotent ==
    /\ norm_pc \in {"once", "twice"} => NoSpaceRuns(norm_out)
    /\ norm_pc = "twice" => norm_out2 = norm_out

\* a control character between words, next to a full-width space, was
\* normalised twice
C7_Witness ==
    /\ norm_pc = "twice"
    /\ norm_in = <<"a", "CTRL", "FWSP">>

====
